---- MODULE Spec2Model ----
(***************************************************************************)
(* Model of src/generate/warm_then_infere.py: the autoregressive decoding  *)
(* loop generate(), and the multi-sample driver infere() that calls it.    *)
(* Positions are 0-based as in the source; TLA+ sequences are 1-based, so  *)
(* buffer position p is idx[p + 1].                                        *)
(***************************************************************************)
EXTENDS Integers, Sequences, FiniteSets, TLC

\* ------------------------------------------------------------------ bounds
VocabSize == 3
MaxPrompt == 2
MaxReturned == 4
MaxSamples == 2
MaxShared == 3
RngMod == 5

MaxNew == MaxReturned - MaxPrompt

\* ------------------------------------------------------- values and inputs
\* Optional[...] of the signatures: None is the empty tuple, a value is <<v>>.
None == <<>>
Some(v) == <<v>>

Vocab == 0 .. (VocabSize - 1)

\* torch.empty: the content of a buffer entry that was never written.
Uninit == -1

\* Encoded prompts: per length, the tokens 0, 1, ... and the last token repeated.
Prompts ==
    UNION {{[k \in 1 .. n |-> (k - 1) % VocabSize], [k \in 1 .. n |-> VocabSize - 1]} :
           n \in 1 .. MaxPrompt}

\* The logit rows a model can return: two levels, so ties and gaps both occur.
LogitVecs == [Vocab -> {0, 1}]

\* Temperatures in tenths: -1.0, 0.0, 0.8 (the default of infere), 1.0.
Temperatures == {-10, 0, 8, 10}

TopKs == {None} \cup {Some(k) : k \in 0 .. (VocabSize + 1)}

\* The temperatures and top_k a call is made with: one per sign, and
\* none / zero / one / more than the vocabulary.
CallTemperatures == {-10, 0, 8}

CallTopKs == {None, Some(0), Some(1), Some(VocabSize + 1)}

EosIds == {None} \cup {Some(t) : t \in Vocab}

BlockSizes == (MaxReturned - 1) .. MaxReturned

SeqLengths == (MaxReturned - 1) .. MaxReturned

GenerateArgs ==
    [idx : Prompts,
     max_returned_tokens : 1 .. MaxReturned,
     max_seq_length : SeqLengths,
     temperature : CallTemperatures,
     top_k : CallTopKs,
     eos_id : EosIds]

NoArgs ==
    [idx |-> <<>>, max_returned_tokens |-> 0, max_seq_length |-> 0,
     temperature |-> 10, top_k |-> None, eos_id |-> None]

InfereArgs ==
    [encoded : Prompts,
     num_samples : 1 .. MaxSamples,
     max_new_tokens : 0 .. MaxNew,
     top_k : CallTopKs,
     temperature : CallTemperatures,
     block_size : BlockSizes,
     fabric_bound : BOOLEAN]

NoInfere ==
    [encoded |-> <<>>, num_samples |-> 0, max_new_tokens |-> 0, top_k |-> None,
     temperature |-> 10, block_size |-> 0, fabric_bound |-> FALSE]

\* ------------------------------------------------------ floating point
\* A float is finite (a rational n/d with d # 0), +inf, -inf or NaN.
Fin(n, d) == [kind |-> "fin", n |-> n, d |-> d]
PInf == [kind |-> "pinf", n |-> 0, d |-> 1]
NInf == [kind |-> "ninf", n |-> 0, d |-> 1]
NaN == [kind |-> "nan", n |-> 0, d |-> 1]

\* a / (t / 10) in IEEE arithmetic, a an integer and t a temperature in tenths.
FDiv(a, t) ==
    IF t # 0 THEN Fin(10 * a, t)
    ELSE IF a > 0 THEN PInf
    ELSE IF a < 0 THEN NInf
    ELSE NaN

\* p < q in IEEE arithmetic: false as soon as one side is NaN.
FLess(p, q) ==
    IF p.kind = "nan" \/ q.kind = "nan" THEN FALSE
    ELSE IF p.kind = "pinf" \/ q.kind = "ninf" THEN FALSE
    ELSE IF p.kind = "ninf" \/ q.kind = "pinf" THEN TRUE
    ELSE p.n * p.d * q.d * q.d < q.n * q.d * p.d * p.d

\* torch.topk orders NaN above every other value.
TopkGreater(p, q) ==
    IF p.kind = "nan" THEN q.kind # "nan"
    ELSE IF q.kind = "nan" THEN FALSE
    ELSE FLess(q, p)

\* ------------------------------------------------------------ sampling
Min(a, b) == IF a < b THEN a ELSE b

\* logits[0, -1] / temperature
TemperatureScale(lg, t) == [tk \in Vocab |-> FDiv(lg[tk], t)]

\* torch.topk(vec, kk)[0]: the kk largest entries of vec among the tokens of
\* rest, largest first.
RECURSIVE Topk(_, _, _)
Topk(vec, rest, kk) ==
    IF kk <= 0 \/ rest = {} THEN <<>>
    ELSE LET m == CHOOSE tk \in rest : \A j \in rest : ~TopkGreater(vec[j], vec[tk])
         IN <<vec[m]>> \o Topk(vec, rest \ {m}, kk - 1)

\* v[[-1]]: the last of the kk largest entries.
KthLargest(vec, kk) == Topk(vec, Vocab, kk)[kk]

\* min(top_k, logits.size(-1))
TopKCount(top_k) == Min(top_k[1], VocabSize)

\* v[[-1]] of an empty v raises IndexError.
TopKFails(top_k) == top_k # None /\ TopKCount(top_k) < 1

\* Mutant of TopKMask: <= for <, the entries equal to the threshold are masked too.
TopKMaskTies(vec, top_k) ==
    IF top_k = None THEN vec
    ELSE LET v == KthLargest(vec, TopKCount(top_k))
         IN [tk \in Vocab |-> IF ~FLess(v, vec[tk]) THEN NInf ELSE vec[tk]]

\* torch.where(logits < v[[-1]], -inf, logits), or the logits as they are.
TopKMask(vec, top_k) ==
    IF top_k = None THEN vec
    ELSE LET v == KthLargest(vec, TopKCount(top_k))
         IN [tk \in Vocab |-> IF FLess(vec[tk], v) THEN NInf ELSE vec[tk]]

\* softmax yields NaN when an entry is NaN or +inf, or when all are -inf.
SoftmaxDefined(vec) ==
    /\ \A tk \in Vocab : vec[tk].kind \in {"fin", "ninf"}
    /\ \E tk \in Vocab : vec[tk].kind = "fin"

\* The tokens of non-zero probability: exp(-inf) = 0, exp(finite) > 0.
Support(vec) == {tk \in Vocab : vec[tk].kind = "fin"}

\* The error the sampling lines raise on these inputs, "none" if they do not.
SampleError(lg, t, top_k) ==
    IF TopKFails(top_k) THEN "IndexError"
    ELSE IF ~SoftmaxDefined(TopKMask(TemperatureScale(lg, t), top_k))
         THEN "RuntimeError"
         ELSE "none"

\* The tokens torch.multinomial can draw.
SampleSet(lg, t, top_k) == Support(TopKMask(TemperatureScale(lg, t), top_k))

\* The outcome of the sampling lines: the error, or the tokens that can be drawn.
Sampling(lg, t, top_k) ==
    LET e == SampleError(lg, t, top_k)
    IN [err |-> e, toks |-> IF e = "none" THEN SampleSet(lg, t, top_k) ELSE {}]

\* Sampling, tabulated over the inputs: <<temperature, top_k, logits, error>> of
\* the inputs that raise, <<temperature, top_k, logits, token>> of the possible draws.
SampleErrors == {"IndexError", "RuntimeError"}

\* (An input that has no such outcome contributes the empty tuple.)
RaiseTable ==
    {IF q[4] = Sampling(q[3], q[1], q[2]).err THEN q ELSE <<>> :
        q \in Temperatures \X TopKs \X LogitVecs \X SampleErrors}

DrawTable ==
    {IF q[4] \in Sampling(q[3], q[1], q[2]).toks THEN q ELSE <<>> :
        q \in Temperatures \X TopKs \X LogitVecs \X Vocab}

\* ------------------------------------------------------ the random source
\* L.seed_everything(1234)
seed == 1234

\* The state of the random source before anything seeded it.
Unseeded == <<>>

\* The states of a seeded random source.
RngStates == 0 .. (RngMod - 1)

\* Mutant of seed_everything: the random source is left as it is.
seed_everythingSkipped(r) == r

\* L.seed_everything(seed): the state is set from the seed, whatever it was.
seed_everything(r) == <<seed % RngMod>>

\* The state of the random source after a draw.
RngNext(r) == IF r = Unseeded THEN Unseeded ELSE <<(r[1] + 1) % RngMod>>

\* The weight of token tk in multinomial's draw from the softmax of vec: it
\* grows with the entry as exp does, and exp(-inf) = 0.
Weight(vec, tk) ==
    IF vec[tk].kind # "fin" THEN 0
    ELSE 1 + Cardinality({j \in Vocab : FLess(vec[j], vec[tk])})

RECURSIVE CumWeight(_, _)
CumWeight(vec, tk) == IF tk < 0 THEN 0 ELSE Weight(vec, tk) + CumWeight(vec, tk - 1)

\* torch.multinomial(probs, num_samples=1) at the state r of a seeded random
\* source: the token whose interval of cumulated weight holds the number drawn.
Pick(vec, r) ==
    LET u == r % CumWeight(vec, VocabSize - 1)
    IN CHOOSE tk \in Vocab : CumWeight(vec, tk - 1) <= u /\ u < CumWeight(vec, tk)

\* Pick, tabulated: <<temperature, top_k, logits, state, token>> of the inputs
\* that raise nothing.
PickTable ==
    {IF Sampling(q[3], q[1], q[2]).err = "none"
        THEN <<q[1], q[2], q[3], q[4],
               Pick(TopKMask(TemperatureScale(q[3], q[1]), q[2]), q[4])>>
        ELSE <<>> :
        q \in Temperatures \X TopKs \X LogitVecs \X RngStates}

\* The tokens multinomial can draw for the row lg at the state r: any token of
\* the support when the state is unknown.
multinomial(t, top_k, lg, r, tok) ==
    /\ <<t, top_k, lg, tok>> \in DrawTable
    /\ r # Unseeded => <<t, top_k, lg, r[1], tok>> \in PickTable

\* ------------------------------------------------------------- the state
VARIABLES
    pc,          \* control position of the caller / generate / infere
    mode,        \* "none", "direct" (generate called directly), "infere", "shared"
                 \* (two calls on one model), "sampling"
    args,        \* arguments of the current generate() call
    idx,         \* generate: the token buffer
    input_pos,   \* generate: the positions passed to the next forward call
    x,           \* generate: the window last passed to the model
    logits,      \* generate: the logits the model returned last
    idx_next,    \* generate: the token sampled last, None before the first
    it,          \* generate: completed iterations of the loop
    sampled,     \* history: the tokens sampled in this generate() call, in order
    result,      \* the value the last generate() call returned
    err,         \* the exception that ended the last call, "none" if none
    cache,       \* model: position -> number of the generate call that cached it, 0 if none
    nForward,    \* history: forward calls made on the model
    nReset,      \* history: reset_cache() calls made on the model
    genCalls,    \* history: generate() calls started
    inf,         \* infere: its arguments
    i,           \* infere: samples completed
    result_as_string, \* infere: the text decoded last
    received,    \* history: what the consumer of infere() received, in order
    genResults,  \* history: the decoded output of every generate() call of infere
    gen,         \* the number of the generate() call that is running
    foreign,     \* history: a forward call found positions cached by another call
    rng,         \* the state of the global random source
    net,         \* the function the model computes, None if it is left open
    other,       \* two calls on one model: the call that is not running
    serialized,  \* history: no call was switched away from inside its loop
    firstRun     \* two runs of infere: the outputs of the first run

genVars == <<args, idx, input_pos, x, logits, idx_next, it, sampled, result, gen>>
modelVars == <<cache, nForward, nReset, foreign>>
infVars == <<inf, i, result_as_string, received, genResults>>
\* What only the callers of the specifications of several calls or runs change.
runVars == <<net, other, serialized, firstRun>>
vars == <<pc, mode, err, genCalls, genVars, modelVars, infVars, rng, runVars>>

Positions == 0 .. (MaxReturned - 1)

ZeroLogits == [t \in Vocab |-> 0]

CleanCache == [p \in Positions |-> 0]

\* Model.reset_cache()
reset_cache == CleanCache

\* The cache holds a position that another call than g cached.
ForeignCached(c, g) == \E p \in Positions : c[p] \notin {0, g}

\* No second call.
NoCall ==
    [pc |-> "none", err |-> "none", gen |-> 0, args |-> NoArgs, idx |-> <<>>,
     input_pos |-> <<>>, x |-> <<>>, idx_next |-> None, it |-> 0, sampled |-> <<>>,
     result |-> <<>>]

\* The positions the model caches on forward(x, max_seq_length, input_pos).
ForwardCache(c, pos, call) ==
    [p \in Positions |-> IF \E j \in 1 .. Len(pos) : pos[j] = p THEN call ELSE c[p]]

\* The deterministic stub models: one per offset.
Nets == Vocab

\* The row a stub model returns: a fixed function of the window, the positions
\* and the positions it has cached (row number h of LogitVecs).
Stub(n, win, pos, c) ==
    LET RECURSIVE Sum(_)
        Sum(k) == IF k = 0 THEN 0 ELSE win[k] * k + Sum(k - 1)
        h == n + Sum(Len(win)) + pos[Len(pos)] +
             Cardinality({p \in Positions : c[p] # 0})
    IN [tk \in Vocab |-> (h \div (2 ^ tk)) % 2]

\* model(x, max_seq_length, input_pos) can return the row lg: any row when the
\* model is left open (None), the stub's row for the stub model <<n>>.
forward(n, win, pos, c, lg) == IF n = None THEN TRUE ELSE lg = Stub(n[1], win, pos, c)

\* Tokenizer.decode
decode(y) == [text |-> y]

\* --------------------------------------------------------------- generate
\* Mutant of Window: the whole prefix up to the last position, whatever pos holds.
WindowPrefix(buf, pos) == SubSeq(buf, 1, pos[Len(pos)] + 1)

\* The window idx.index_select(0, input_pos)
Window(buf, pos) == [j \in 1 .. Len(pos) |-> buf[pos[j] + 1]]

\* Mutant of AssertReturnedTokens: >= for >.
AssertReturnedTokensGeq(a) == a.max_returned_tokens >= Len(a.idx)

\* assert max_returned_tokens > T
AssertReturnedTokens(a) == a.max_returned_tokens > Len(a.idx)

\* Mutant of LoopCount: one iteration too many.
LoopCountOneMore(a) == a.max_returned_tokens - Len(a.idx) + 1

\* range(max_returned_tokens - T): the iterations of the loop.
LoopCount(a) == a.max_returned_tokens - Len(a.idx)

\* Mutant of arange: only the last position.
arangeLastOnly(a, b) == <<b - 1>>

\* Mutant of arange: the positions start one too high.
arangeFromOne(a, b) == [k \in 1 .. (b - a) |-> a + k]

\* torch.arange(a, b)
arange(a, b) == [k \in 1 .. (b - a) |-> a + k - 1]

\* Entry of generate(model, a.idx, ...): the assert, the buffer, the positions,
\* and the first test of the loop.
GenerateEnter(a) ==
    LET T == Len(a.idx)
        C == a.max_returned_tokens
        buf == [k \in 1 .. C |-> IF k <= T THEN a.idx[k] ELSE Uninit]
    IN /\ args' = a
       /\ genCalls' = genCalls + 1
       /\ gen' = genCalls + 1
       /\ x' = <<>>
       /\ logits' = ZeroLogits
       /\ idx_next' = None
       /\ it' = 0
       /\ sampled' = <<>>
       /\ IF AssertReturnedTokens(a)
          THEN /\ idx' = buf
               /\ input_pos' = arange(0, T)
               /\ err' = "none"
               /\ IF LoopCount(a) > 0
                  THEN pc' = "gen_loop" /\ result' = <<>>
                  ELSE pc' = "returned" /\ result' = buf
          ELSE /\ idx' = <<>>
               /\ input_pos' = <<>>
               /\ result' = <<>>
               /\ pc' = "raised"
               /\ err' = "AssertionError"

\* Mutant of ForwardRaises: the exception is caught and the step is tried again.
ForwardRaisesRetried ==
    /\ x' = Window(idx, input_pos)
    /\ nForward' = nForward + 1
    /\ cache' \in {cache, ForwardCache(cache, input_pos, gen)}
    /\ pc' = "gen_loop"
    /\ err' = "ModelFailure"
    /\ foreign' = (foreign \/ ForeignCached(cache, gen))
    /\ UNCHANGED <<args, idx, input_pos, logits, idx_next, it, sampled, result, gen, nReset,
                   rng>>

\* model(x, max_seq_length, input_pos) raises: the exception leaves generate.
ForwardRaises ==
    /\ x' = Window(idx, input_pos)
    /\ nForward' = nForward + 1
    /\ cache' \in {cache, ForwardCache(cache, input_pos, gen)}
    /\ pc' = "raised"
    /\ err' = "ModelFailure"
    /\ foreign' = (foreign \/ ForeignCached(cache, gen))
    /\ UNCHANGED <<args, idx, input_pos, logits, idx_next, it, sampled, result, gen, nReset,
                   rng>>

\* The model returns lg, and topk / multinomial raise on it.
SamplingRaises(lg) ==
    /\ forward(net, Window(idx, input_pos), input_pos, cache, lg)
    /\ x' = Window(idx, input_pos)
    /\ nForward' = nForward + 1
    /\ cache' = ForwardCache(cache, input_pos, gen)
    /\ pc' = "raised"
    /\ \E e \in SampleErrors :
          /\ <<args.temperature, args.top_k, lg, e>> \in RaiseTable
          /\ err' = e
    /\ foreign' = (foreign \/ ForeignCached(cache, gen))
    /\ UNCHANGED <<args, idx, input_pos, logits, idx_next, it, sampled, result, gen, nReset,
                   rng>>

\* Mutant of NextPos: a position is skipped.
NextPosSkip(pos) == pos[Len(pos)] + 2

\* Mutant of NextPos: the position is not advanced.
NextPosStuck(pos) == pos[Len(pos)]

\* The position the step writes: input_pos[-1:] + 1
NextPos(pos) == pos[Len(pos)] + 1

\* Mutant of index_copy: the token is written one position too low.
index_copyBelow(buf, p, tok) == [buf EXCEPT ![p] = tok]

\* idx.index_copy(0, input_pos, idx_next), for p in range
index_copy(buf, p, tok) == [buf EXCEPT ![p + 1] = tok]

\* Mutant of EosHit: the eos test never succeeds.
EosHitNever(tok, eos_id) == FALSE

\* idx_next == eos_id (False when eos_id is None)
EosHit(tok, eos_id) == Some(tok) = eos_id

\* The value generate returns at the eos exit: idx[:input_pos]
EosSlice(buf, p) == SubSeq(buf, 1, p)

\* The model returns lg and tok is drawn: advance, write, test eos, loop or return.
Advance(lg, tok) ==
    LET p == NextPos(input_pos)
        newIdx == index_copy(idx, p, tok)
    IN /\ forward(net, Window(idx, input_pos), input_pos, cache, lg)
       /\ multinomial(args.temperature, args.top_k, lg, rng, tok)
       /\ x' = Window(idx, input_pos)
       /\ nForward' = nForward + 1
       /\ cache' = ForwardCache(cache, input_pos, gen)
       /\ idx_next' = Some(tok)
       /\ sampled' = Append(sampled, tok)
       /\ input_pos' = <<p>>
       /\ foreign' = (foreign \/ ForeignCached(cache, gen))
       /\ rng' = RngNext(rng)
       /\ UNCHANGED <<args, logits, gen, nReset>>
       /\ IF p >= Len(idx)
          THEN \* index_copy out of range
               /\ pc' = "raised"
               /\ err' = "IndexCopyError"
               /\ UNCHANGED <<idx, it, result>>
          ELSE /\ idx' = newIdx
               /\ it' = it + 1
               /\ err' = "none"
               /\ IF EosHit(tok, args.eos_id)
                  THEN /\ result' = EosSlice(newIdx, p)
                       /\ pc' = "returned"
                  ELSE IF it + 1 >= LoopCount(args)
                  THEN /\ result' = newIdx
                       /\ pc' = "returned"
                  ELSE /\ result' = result
                       /\ pc' = "gen_loop"

\* One iteration of the loop of generate.
GenerateStep ==
    /\ pc = "gen_loop"
    /\ \/ ForwardRaises
       \/ \E lg \in LogitVecs : SamplingRaises(lg)
       \/ \E lg \in LogitVecs : \E tok \in Vocab : Advance(lg, tok)
    /\ UNCHANGED <<mode, genCalls, infVars, runVars>>

\* ------------------------------------------------------ direct callers
\* A caller calls generate() on the model.
DirectCall ==
    /\ mode = "none"
    /\ pc = "idle"
    /\ \E a \in GenerateArgs : GenerateEnter(a)
    /\ mode' = "direct"
    /\ UNCHANGED <<modelVars, infVars, rng, runVars>>

\* A caller calls model.reset_cache() after a generate() call ended.
DirectReset ==
    /\ mode = "direct"
    /\ pc \in {"returned", "raised"}
    /\ pc' = "idle"
    /\ cache' = reset_cache
    /\ nReset' = nReset + 1
    /\ UNCHANGED <<mode, err, genCalls, genVars, nForward, foreign, infVars, rng, runVars>>

\* ----------------------------------------------------------------- infere
\* infere(tokenizer, model, ...) is called: a generator is made, no line runs.
InfereCall ==
    /\ mode = "none"
    /\ pc = "idle"
    /\ \E a \in InfereArgs : inf' = a
    /\ mode' = "infere"
    /\ pc' = "inf_created"
    /\ UNCHANGED <<err, genCalls, genVars, modelVars, i, result_as_string, received,
                   genResults, rng, runVars>>

\* Mutant of AssertBlockSize: the prompt length is left out of the sum.
AssertBlockSizeNewOnly(a) == a.max_new_tokens <= a.block_size

\* assert max_returned_tokens <= model.config.block_size
AssertBlockSize(a) == Len(a.encoded) + a.max_new_tokens <= a.block_size

\* The consumer's first next(): encode (the name fabric is looked up among the
\* module's globals, where this file binds none), the block size assert, the seed.
InfereStart ==
    /\ pc = "inf_created"
    /\ IF ~inf.fabric_bound
       THEN pc' = "raised" /\ err' = "NameError" /\ rng' = rng
       ELSE IF ~AssertBlockSize(inf)
       THEN pc' = "raised" /\ err' = "AssertionError" /\ rng' = rng
       ELSE pc' = "inf_loop" /\ err' = "none" /\ rng' = seed_everything(rng)
    /\ i' = 0
    /\ UNCHANGED <<mode, genCalls, genVars, modelVars, inf, result_as_string, received,
                   genResults, runVars>>

\* The arguments infere passes to generate.
InfereGenerateArgs ==
    [idx |-> inf.encoded,
     max_returned_tokens |-> Len(inf.encoded) + inf.max_new_tokens,
     max_seq_length |-> Len(inf.encoded) + inf.max_new_tokens,
     temperature |-> inf.temperature,
     top_k |-> inf.top_k,
     eos_id |-> None]

\* for i in range(num_samples): y = generate(...)
InfereCallGenerate ==
    /\ pc = "inf_loop"
    /\ i < inf.num_samples
    /\ GenerateEnter(InfereGenerateArgs)
    /\ UNCHANGED <<mode, modelVars, infVars, rng, runVars>>

\* Mutant of InfereAfterGenerate: model.reset_cache() is not called.
InfereAfterGenerateNoReset ==
    /\ mode = "infere"
    /\ pc = "returned"
    /\ result_as_string' = Some(decode(result))
    /\ genResults' = Append(genResults, decode(result))
    /\ i' = i + 1
    /\ pc' = "inf_loop"
    /\ UNCHANGED <<mode, err, genCalls, genVars, modelVars, inf, received, rng, runVars>>

\* generate returned: model.reset_cache(), decode, next iteration.
InfereAfterGenerate ==
    /\ mode = "infere"
    /\ pc = "returned"
    /\ cache' = reset_cache
    /\ nReset' = nReset + 1
    /\ result_as_string' = Some(decode(result))
    /\ genResults' = Append(genResults, decode(result))
    /\ i' = i + 1
    /\ pc' = "inf_loop"
    /\ UNCHANGED <<mode, err, genCalls, genVars, nForward, foreign, inf, received, rng,
                   runVars>>

\* After the loop: return the text (one sample) or yield it (several).
InfereFinish ==
    /\ pc = "inf_loop"
    /\ i >= inf.num_samples
    /\ IF inf.num_samples = 1
       THEN /\ pc' = "inf_done"
            /\ received' = received
       ELSE /\ pc' = "inf_yielded"
            /\ received' = Append(received, result_as_string[1])
    /\ UNCHANGED <<mode, err, genCalls, genVars, modelVars, inf, i, result_as_string,
                   genResults, rng, runVars>>

\* The consumer's next() after the yield: the generator ends.
ConsumerNext ==
    /\ pc = "inf_yielded"
    /\ pc' = "inf_done"
    /\ UNCHANGED <<mode, err, genCalls, genVars, modelVars, infVars, rng, runVars>>

Init ==
    /\ pc = "idle"
    /\ mode = "none"
    /\ args = NoArgs
    /\ idx = <<>>
    /\ input_pos = <<>>
    /\ x = <<>>
    /\ logits = ZeroLogits
    /\ idx_next = None
    /\ it = 0
    /\ sampled = <<>>
    /\ result = <<>>
    /\ err = "none"
    /\ cache = CleanCache
    /\ nForward = 0
    /\ nReset = 0
    /\ genCalls = 0
    /\ inf = NoInfere
    /\ i = 0
    /\ result_as_string = None
    /\ received = <<>>
    /\ genResults = <<>>
    /\ gen = 0
    /\ foreign = FALSE
    /\ rng = Unseeded
    /\ net = None
    /\ other = NoCall
    /\ serialized = TRUE
    /\ firstRun = <<>>

Next ==
    \/ DirectCall
    \/ DirectReset
    \/ GenerateStep
    \/ InfereCall
    \/ InfereStart
    \/ InfereCallGenerate
    \/ InfereAfterGenerate
    \/ InfereFinish
    \/ ConsumerNext

Spec == Init /\ [][Next]_vars

\* generate() called directly, on its own: once the loop is entered it runs to
\* its end, nothing outside generate is awaited between two iterations.
NextGenerate ==
    \/ DirectCall
    \/ GenerateStep
    \/ DirectReset

SpecGenerate == Init /\ [][NextGenerate]_vars /\ WF_vars(GenerateStep)

\* ---------------------------------------- two generate() calls on one model
\* The arguments of the two calls: a prompt of each length (the cache is keyed
\* by positions, not by tokens), up to MaxShared tokens returned, sampling at the
\* defaults of generate.
SharedArgs ==
    [idx : {[k \in 1 .. n |-> (k - 1) % VocabSize] : n \in 1 .. MaxPrompt},
     max_returned_tokens : 1 .. Min(MaxShared, MaxReturned),
     max_seq_length : {MaxReturned},
     temperature : {10},
     top_k : {None},
     eos_id : {None}]

\* The running call, as it stands while the other call runs.
Suspended ==
    [pc |-> pc, err |-> err, gen |-> gen, args |-> args, idx |-> idx,
     input_pos |-> input_pos, x |-> x, idx_next |-> idx_next, it |-> it,
     sampled |-> sampled, result |-> result]

\* A call that is to be made with the arguments a.
Pending(a) == [NoCall EXCEPT !.pc = "pending", !.args = a]

\* Two callers are about to call generate() on the one model; the first call is
\* entered.
SharedCall ==
    /\ mode = "none"
    /\ pc = "idle"
    /\ \E a \in SharedArgs, b \in SharedArgs :
          /\ GenerateEnter(a)
          /\ other' = Pending(b)
    /\ mode' = "shared"
    /\ UNCHANGED <<modelVars, infVars, rng, net, serialized, firstRun>>

\* Control passes to the other call: it is entered, or goes on where it stood.
Switch ==
    /\ other' = Suspended
    /\ IF other.pc = "pending"
       THEN GenerateEnter(other.args)
       ELSE /\ pc' = other.pc
            /\ err' = other.err
            /\ gen' = other.gen
            /\ args' = other.args
            /\ idx' = other.idx
            /\ input_pos' = other.input_pos
            /\ x' = other.x
            /\ idx_next' = other.idx_next
            /\ it' = other.it
            /\ sampled' = other.sampled
            /\ result' = other.result
            /\ UNCHANGED <<genCalls, logits>>

\* No serialization: the other call runs between two iterations of this one.
Preempt ==
    /\ mode = "shared"
    /\ pc = "gen_loop"
    /\ other.pc \in {"pending", "gen_loop"}
    /\ Switch
    /\ serialized' = FALSE
    /\ UNCHANGED <<mode, modelVars, infVars, rng, net, firstRun>>

\* The running call has ended and the other call runs, after model.reset_cache()
\* (reset) or on the cache as the ended call left it.
HandOver(reset) ==
    /\ mode = "shared"
    /\ pc \in {"returned", "raised"}
    /\ other.pc \in {"pending", "gen_loop"}
    /\ Switch
    /\ IF reset
       THEN cache' = reset_cache /\ nReset' = nReset + 1
       ELSE UNCHANGED <<cache, nReset>>
    /\ UNCHANGED <<mode, nForward, foreign, infVars, rng, net, serialized, firstRun>>

NextShared ==
    \/ SharedCall
    \/ GenerateStep
    \/ Preempt
    \/ \E reset \in BOOLEAN : HandOver(reset)

SpecShared == Init /\ [][NextShared]_vars

\* ------------------------------------ two runs of infere on a stub model
\* infere is called on a deterministic stub model.
StubCall ==
    /\ mode = "none"
    /\ pc = "idle"
    /\ \E a \in InfereArgs : inf' = a
    /\ \E n \in Nets : net' = Some(n)
    /\ mode' = "infere"
    /\ pc' = "inf_created"
    /\ UNCHANGED <<err, genCalls, genVars, modelVars, i, result_as_string, received,
                   genResults, rng, other, serialized, firstRun>>

\* The first run has ended: its outputs are kept, and infere is called again
\* with the same arguments on the same model.
InfereAgain ==
    /\ mode = "infere"
    /\ pc = "inf_done"
    /\ firstRun = None
    /\ firstRun' = Some(genResults)
    /\ genResults' = <<>>
    /\ received' = <<>>
    /\ result_as_string' = None
    /\ i' = 0
    /\ pc' = "inf_created"
    /\ UNCHANGED <<mode, err, genCalls, genVars, modelVars, inf, rng, net, other,
                   serialized>>

NextRepeat ==
    \/ StubCall
    \/ InfereStart
    \/ InfereCallGenerate
    \/ GenerateStep
    \/ InfereAfterGenerate
    \/ InfereFinish
    \/ ConsumerNext
    \/ InfereAgain

SpecRepeat == Init /\ [][NextRepeat]_vars

\* ------------------------------------------- the sampling lines on their own
\* The lines between the forward call and the advance, on every logit row,
\* temperature and top_k: logits holds the model's row, then the scaled row,
\* then the masked row.
InitSampling ==
    /\ pc = "sample_in"
    /\ mode = "sampling"
    /\ \E t \in Temperatures, k \in TopKs :
          args = [NoArgs EXCEPT !.temperature = t, !.top_k = k]
    /\ logits \in LogitVecs
    /\ idx = <<>>
    /\ input_pos = <<>>
    /\ x = <<>>
    /\ idx_next = None
    /\ it = 0
    /\ sampled = <<>>
    /\ result = <<>>
    /\ err = "none"
    /\ cache = CleanCache
    /\ nForward = 0
    /\ nReset = 0
    /\ genCalls = 0
    /\ inf = NoInfere
    /\ i = 0
    /\ result_as_string = None
    /\ received = <<>>
    /\ genResults = <<>>
    /\ gen = 0
    /\ foreign = FALSE
    /\ rng = Unseeded
    /\ net = None
    /\ other = NoCall
    /\ serialized = TRUE
    /\ firstRun = <<>>

\* logits = logits[0, -1] / temperature
SamplingScale ==
    /\ pc = "sample_in"
    /\ logits' = TemperatureScale(logits, args.temperature)
    /\ pc' = "scaled"
    /\ UNCHANGED <<mode, err, genCalls, args, idx, input_pos, x, idx_next, it, sampled,
                   result, gen, modelVars, infVars, rng, runVars>>

\* The top-k crop, softmax and multinomial on the scaled row.
SamplingDraw ==
    /\ pc = "scaled"
    /\ IF TopKFails(args.top_k)
       THEN /\ pc' = "raised"
            /\ err' = "IndexError"
            /\ UNCHANGED <<logits, idx_next>>
       ELSE /\ logits' = TopKMask(logits, args.top_k)
            /\ IF SoftmaxDefined(logits')
               THEN /\ \E tok \in Support(logits') : idx_next' = Some(tok)
                    /\ pc' = "sampled"
                    /\ err' = "none"
               ELSE /\ pc' = "raised"
                    /\ err' = "RuntimeError"
                    /\ idx_next' = idx_next
    /\ UNCHANGED <<mode, genCalls, args, idx, input_pos, x, it, sampled, result, gen,
                   modelVars, infVars, rng, runVars>>

NextSampling ==
    \/ SamplingScale
    \/ SamplingDraw

SpecSampling == InitSampling /\ [][NextSampling]_vars

\* ------------------------------------------------------------ properties
\* The number of buffer entries that were written.
Cursor(buf) == Cardinality({k \in 1 .. Len(buf) : buf[k] # Uninit})

\* C1: with eos_id unset, generate returns exactly max_returned_tokens = T + N
\* tokens: the prompt followed by the N sampled tokens in the order they were
\* sampled.
C1_ExactLength ==
    (pc = "returned" /\ args.eos_id = None) =>
        /\ Len(result) = args.max_returned_tokens
        /\ Len(sampled) = args.max_returned_tokens - Len(args.idx)
        /\ result = args.idx \o sampled

C1_Witness ==
    /\ mode = "direct"
    /\ pc = "returned"
    /\ args.eos_id = None
    /\ Len(args.idx) = 1
    /\ Len(sampled) = MaxReturned - 1

\* C2: when generate stops because the token just sampled equals eos_id, the
\* returned sequence is the prompt followed by every sampled token up to and
\* including eos, so its last element is eos.
C2_EosIncluded ==
    (pc = "returned" /\ args.eos_id # None /\ idx_next = args.eos_id) =>
        /\ result = args.idx \o sampled
        /\ result[Len(result)] = args.eos_id[1]

\* C3: the buffer has capacity C = max_returned_tokens, T <= cursor <= C, the
\* entries below the cursor are written and those from the cursor on are not,
\* a step is only started when the cursor is below C, no write is out of range,
\* and the returned sequence has at most C tokens.
C3_Capacity ==
    /\ err # "IndexCopyError"
    /\ idx # <<>> =>
         LET C == args.max_returned_tokens
             T == Len(args.idx)
             cur == Cursor(idx)
         IN /\ Len(idx) = C
            /\ T <= cur
            /\ cur <= C
            /\ cur = T + Len(sampled)
            /\ \A k \in 1 .. C : (k <= cur) <=> (idx[k] # Uninit)
            /\ pc = "gen_loop" => cur < C
            /\ sampled # <<>> => input_pos = <<cur - 1>>
            /\ pc = "returned" => Len(result) <= C

C3_Witness ==
    /\ pc = "returned"
    /\ args.max_returned_tokens = MaxReturned
    /\ Cursor(idx) = MaxReturned
    /\ Len(result) = MaxReturned
    /\ Len(sampled) >= 2

\* C4: in infere, started on a clean cache, every generate call begins with a
\* clean cache and only ever sees positions it cached itself; reset_cache has
\* been called once per generate call that returned, before the next one starts;
\* and the cache is clean when infere finishes normally.
C4_CacheLifecycle ==
    mode = "infere" =>
        /\ pc = "gen_loop" =>
             /\ nReset = genCalls - 1
             /\ i = genCalls - 1
             /\ it = 0 => cache = CleanCache
             /\ \A p \in Positions : cache[p] \in {0, genCalls}
        /\ pc = "returned" =>
             /\ nReset = genCalls - 1
             /\ i = genCalls - 1
        /\ pc \in {"inf_loop", "inf_yielded", "inf_done"} =>
             /\ nReset = genCalls
             /\ i = genCalls
             /\ cache = CleanCache

C4_Witness ==
    /\ mode = "infere"
    /\ pc = "gen_loop"
    /\ it = 0
    /\ genCalls = 2
    /\ nReset = 1
    /\ nForward >= 2
    /\ cache = CleanCache

\* C5: for num_samples = n > 1, a consumer that iterates infere to exhaustion
\* has received n results, the k-th being the decoded output of the k-th
\* generate call.
C5_OneResultPerSample ==
    (mode = "infere" /\ pc = "inf_done" /\ inf.num_samples > 1) =>
        /\ Len(received) = inf.num_samples
        /\ \A k \in 1 .. Len(received) : received[k] = genResults[k]

\* C6: when prompt length + max_new_tokens exceeds the block size, infere fails
\* at its start, and no generate call, no forward call and no reset_cache call
\* has been made: the model and its cache are as they were.
C6_BlockSizeEnforced ==
    (/\ mode = "infere"
     /\ pc # "inf_created"
     /\ Len(inf.encoded) + inf.max_new_tokens > inf.block_size) =>
        /\ pc = "raised"
        /\ err = IF inf.fabric_bound THEN "AssertionError" ELSE "NameError"
        /\ genCalls = 0
        /\ nForward = 0
        /\ nReset = 0
        /\ cache = CleanCache

C6_Witness ==
    /\ mode = "infere"
    /\ pc = "raised"
    /\ err = "AssertionError"
    /\ inf.fabric_bound
    /\ Len(inf.encoded) + inf.max_new_tokens > inf.block_size
    /\ genCalls = 0

\* C7: generate called with max_returned_tokens <= T fails on its assert before
\* the loop: no buffer, no forward call, no sampling, the cache unchanged.
C7_AssertBeforeLoop ==
    (/\ mode \in {"direct", "infere"}
     /\ genCalls >= 1
     /\ args.max_returned_tokens <= Len(args.idx)) =>
        /\ pc \in {"raised", "idle"}
        /\ err = "AssertionError"
        /\ nForward = 0
        /\ idx = <<>>
        /\ sampled = <<>>
        /\ idx_next = None
        /\ result = <<>>
        /\ cache = CleanCache

C7_Witness ==
    /\ mode = "direct"
    /\ pc = "raised"
    /\ err = "AssertionError"
    /\ args.max_returned_tokens = Len(args.idx)
    /\ nForward = 0

\* C8: generate called with max_returned_tokens > max_seq_length (and
\* max_returned_tokens > T) fails before any model forward call.
C8_SeqLengthChecked ==
    (/\ genCalls >= 1
     /\ args.max_returned_tokens > args.max_seq_length
     /\ args.max_returned_tokens > Len(args.idx)) =>
        nForward = 0

\* C9: when Model.forward fails at a step of generate, generate ends with that
\* error, without a token sampled or written for the step and without a result;
\* afterwards no forward call is made, nothing is sampled, written, returned or
\* delivered, and infere starts no further sample.
C9_ForwardFailureAborts ==
    /\ [](err = "ModelFailure" =>
            /\ pc \in {"raised", "idle"}
            /\ result = <<>>
            /\ Len(sampled) = it
            /\ Cursor(idx) = Len(args.idx) + it
            /\ received = <<>>)
    /\ [][err = "ModelFailure" =>
            /\ err' = err
            /\ nForward' = nForward
            /\ genCalls' = genCalls
            /\ sampled' = sampled
            /\ idx' = idx
            /\ result' = result
            /\ i' = i
            /\ received' = received
            /\ genResults' = genResults]_vars

C9_Witness ==
    /\ mode = "infere"
    /\ err = "ModelFailure"
    /\ pc = "raised"
    /\ inf.num_samples = 2
    /\ genCalls = 1
    /\ it = 1

\* C10: top-k masking of a finite logit row with 1 <= k <= V: with v the k-th
\* largest entry, exactly the entries strictly less than v become -inf, every
\* entry >= v is kept as it is, at least k entries survive, a token is drawn,
\* and the token drawn is one of the survivors.
C10_TopKMasking ==
    [][(/\ pc = "scaled"
        /\ args.top_k # None
        /\ args.top_k[1] \in 1 .. VocabSize
        /\ \A tk \in Vocab : logits[tk].kind = "fin") =>
          LET k == args.top_k[1]
              m == CHOOSE tk \in Vocab :
                     /\ Cardinality({j \in Vocab : FLess(logits[tk], logits[j])}) < k
                     /\ Cardinality({j \in Vocab : ~FLess(logits[j], logits[tk])}) >= k
              v == logits[m]
              drawn == idx_next'[1]
          IN /\ pc' = "sampled"
             /\ \A tk \in Vocab :
                  /\ FLess(logits[tk], v) => logits'[tk] = NInf
                  /\ ~FLess(logits[tk], v) => logits'[tk] = logits[tk]
             /\ Cardinality({tk \in Vocab : logits'[tk].kind = "fin"}) >= k
             /\ idx_next' # None
             /\ logits'[drawn].kind = "fin"
             /\ ~FLess(logits[drawn], v)]_vars

C10_Witness ==
    /\ pc = "sampled"
    /\ args.top_k = Some(1)
    /\ args.temperature = 8
    /\ Cardinality({tk \in Vocab : logits[tk].kind = "fin"}) = 2
    /\ Cardinality({tk \in Vocab : logits[tk] = NInf}) = VocabSize - 2

\* C12: generate called with an invalid sampling configuration (temperature <= 0,
\* top_k <= 0, or top_k greater than the vocabulary size) fails with
\* InvalidConfig before the loop: no forward call is made and the cache is
\* unchanged.
C12_InvalidConfigRejected ==
    (/\ genCalls >= 1
     /\ AssertReturnedTokens(args)
     /\ \/ args.temperature <= 0
        \/ /\ args.top_k # None
           /\ (args.top_k[1] <= 0 \/ args.top_k[1] > VocabSize)) =>
        /\ pc \in {"raised", "idle"}
        /\ err = "InvalidConfig"
        /\ nForward = 0
        /\ cache = CleanCache

\* C14: for num_samples > 1, when the generate call of sample k + 1 has begun,
\* the consumer has received the results of the samples 1 .. k, each the decoded
\* output of its generate call.
C14_DeliveredBeforeNext ==
    (mode = "infere" /\ inf.num_samples > 1 /\ genCalls >= 2) =>
        /\ Len(received) >= genCalls - 1
        /\ \A k \in 1 .. (genCalls - 1) : received[k] = genResults[k]

\* C15: the positions passed to the model are 0 .. T-1 at the first step and,
\* at every later step, the one position of the token written last; the step
\* writes at the cursor, which is T at the first step and one more at each
\* following step, and the position passed next is the one just written.
C15_PositionBookkeeping ==
    [][(pc = "gen_loop" /\ nForward' # nForward) =>
         LET T == Len(args.idx)
             written == {k \in 1 .. Len(idx) : idx'[k] # idx[k]}
         IN /\ it = 0 => input_pos = [k \in 1 .. T |-> k - 1]
            /\ it > 0 =>
                 /\ input_pos = <<T + it - 1>>
                 /\ idx[T + it] = sampled[it]
            /\ sampled' # sampled =>
                 /\ written = {T + it + 1}
                 /\ Cursor(idx) = T + it
                 /\ Cursor(idx') = T + it + 1
                 /\ it' = it + 1
                 /\ input_pos' = <<T + it>>]_vars

C15_Witness ==
    /\ mode = "direct"
    /\ pc = "gen_loop"
    /\ it = 2
    /\ Len(args.idx) = 1
    /\ input_pos = <<2>>
    /\ x = <<idx[2]>>

ForwardCalls == nForward - (genCalls - 1) * LoopCount(args)

\* C17: generate terminates after at most max_returned_tokens - T forward calls:
\* one forward call per iteration, exactly max_returned_tokens - T of them when
\* eos is never sampled and exactly k when eos is first sampled at step k, and
\* after generate has ended no forward call, no sampling and no buffer write
\* happen for that call.
C17_Terminates ==
    /\ []((genCalls >= 1 /\ AssertReturnedTokens(args)) =>
            /\ ForwardCalls <= LoopCount(args)
            /\ pc = "gen_loop" =>
                 /\ ForwardCalls = it
                 /\ it < LoopCount(args)
                 /\ \A k \in 1 .. Len(sampled) : Some(sampled[k]) # args.eos_id
            /\ pc = "returned" =>
                 /\ ForwardCalls = Len(sampled)
                 /\ \A k \in 1 .. (Len(sampled) - 1) : Some(sampled[k]) # args.eos_id
                 /\ \/ ForwardCalls = LoopCount(args)
                    \/ Some(sampled[Len(sampled)]) = args.eos_id)
    /\ [][(pc \in {"returned", "raised"} /\ genCalls' = genCalls) =>
            /\ nForward' = nForward
            /\ sampled' = sampled
            /\ idx' = idx
            /\ result' = result]_vars
    /\ (pc = "gen_loop" ~> pc \in {"returned", "raised"})

C17_Witness ==
    /\ mode = "direct"
    /\ pc = "returned"
    /\ LoopCount(args) = 3
    /\ args.eos_id # None
    /\ Len(sampled) = 2
    /\ Some(sampled[1]) # args.eos_id
    /\ Some(sampled[2]) = args.eos_id
    /\ nForward = 2

\* C18: a step of generate that writes changes exactly one buffer entry, the one
\* at the cursor, and leaves the entries below the cursor as they are; within a
\* call a written entry is never changed again and the prompt passed by the
\* caller stays as it was; the first T tokens of a returned sequence are the
\* prompt; and every generate call of infere is passed the same encoded prompt
\* and, once past its assert, starts in a fresh buffer that holds this prompt
\* and nothing else.
C18_Frame ==
    /\ [](pc = "returned" =>
            /\ Len(result) >= Len(args.idx)
            /\ SubSeq(result, 1, Len(args.idx)) = args.idx)
    /\ [][(pc = "gen_loop" /\ idx' # idx) =>
            LET cur == Cursor(idx)
            IN /\ Len(idx') = Len(idx)
               /\ idx[cur + 1] = Uninit
               /\ idx'[cur + 1] \in Vocab
               /\ \A k \in 1 .. Len(idx) : k # cur + 1 => idx'[k] = idx[k]]_vars
    /\ [][genCalls' = genCalls =>
            /\ args' = args
            /\ Len(idx') = Len(idx)
            /\ \A k \in 1 .. Len(idx) : idx[k] # Uninit => idx'[k] = idx[k]]_vars
    /\ [][mode = "infere" =>
            /\ inf' = inf
            /\ genCalls' # genCalls => args'.idx = inf.encoded
            /\ (genCalls' # genCalls /\ pc' # "raised") =>
                 /\ Len(idx') = Len(inf.encoded) + inf.max_new_tokens
                 /\ \A k \in 1 .. Len(idx') :
                      idx'[k] = IF k <= Len(inf.encoded) THEN inf.encoded[k] ELSE Uninit]_vars

C18_Witness ==
    /\ mode = "infere"
    /\ genCalls = 2
    /\ pc = "returned"
    /\ Len(inf.encoded) = 2
    /\ Len(sampled) = 2
    /\ result = inf.encoded \o sampled
    /\ genResults[1] # decode(result)

\* The positions the cache holds.
Cached == {p \in Positions : cache[p] # 0}

\* C19: in a generate call started on a clean cache, at every forward call the
\* positions passed are increasing, none of them is cached yet, all of them are
\* above every cached position, and the window holds the token the buffer has
\* at each; before the forward call for a single position p the cached
\* positions are exactly 0 .. p-1, all cached by this call, and after it
\* 0 .. p; no position passed reaches max_returned_tokens - 1, so in infere all
\* are below max_seq_length.
C19_CacheConsistent ==
    [][(pc = "gen_loop" /\ nForward' # nForward) =>
         LET n == Len(input_pos)
             p == input_pos[n]
         IN /\ it = 0 => cache = CleanCache
            /\ \A j \in 1 .. n :
                 /\ j < n => input_pos[j] < input_pos[j + 1]
                 /\ input_pos[j] \notin Cached
                 /\ \A q \in Cached : q < input_pos[j]
                 /\ idx[input_pos[j] + 1] \in Vocab
                 /\ x'[j] = idx[input_pos[j] + 1]
                 /\ input_pos[j] < args.max_returned_tokens - 1
                 /\ mode = "infere" => input_pos[j] < args.max_seq_length
            /\ it > 0 =>
                 /\ n = 1
                 /\ Cached = 0 .. (p - 1)
                 /\ \A q \in Cached : cache[q] = genCalls
            /\ sampled' # sampled =>
                 /\ {q \in Positions : cache'[q] # 0} = 0 .. p
                 /\ p + 1 <= args.max_returned_tokens - 1]_vars

C19_Witness ==
    /\ mode = "infere"
    /\ pc = "returned"
    /\ genCalls = 2
    /\ it = 2
    /\ Len(args.idx) = 2
    /\ Cached = 0 .. 2
    /\ \A q \in Cached : cache[q] = 2

\* C13: a generate call made after an earlier call ended, with no reset_cache
\* in between and the cache still holding positions of the earlier call, ends
\* in an error: it makes no forward call on that cache and returns no result.
C13_StaleCacheFlagged ==
    (/\ mode = "shared"
     /\ serialized
     /\ gen = 2
     /\ nReset = 0
     /\ (foreign \/ ForeignCached(cache, gen))) =>
        /\ pc = "raised"
        /\ ~foreign
        /\ result = <<>>

\* C20: when the two calls run one after the other with reset_cache between
\* them, every forward call finds the cache holding exactly the positions below
\* the one it passes, all cached by its own call, and none finds a position
\* cached by the other call. (The witness is the unsafe case: the steps of the
\* two calls interleave and a forward call of one finds positions the other
\* cached.)
C20_SerializedSafe ==
    /\ []((serialized /\ nReset = genCalls - 1) => ~foreign)
    /\ [][(/\ serialized
           /\ nReset = genCalls - 1
           /\ pc = "gen_loop"
           /\ nForward' # nForward) =>
            /\ ~ForeignCached(cache, gen)
            /\ Cached = 0 .. (input_pos[1] - 1)
            /\ \A q \in Cached : cache[q] = gen]_vars

C20_Witness ==
    /\ mode = "shared"
    /\ ~serialized
    /\ foreign
    /\ nReset = 0
    /\ pc = "gen_loop"
    /\ it >= 1
    /\ other.pc = "gen_loop"
    /\ other.it >= 1
    /\ \E q \in Positions : q < input_pos[1] /\ cache[q] = other.gen

\* C11: a second run of infere with the same prompt and parameters on the same
\* deterministic model, its cache clean at the start of both runs, produces for
\* every sample index the token sequence the first run produced.
C11_Deterministic ==
    firstRun # None =>
        /\ Len(genResults) <= Len(firstRun[1])
        /\ \A k \in 1 .. Len(genResults) : genResults[k] = firstRun[1][k]

C11_Witness ==
    /\ firstRun # None
    /\ pc = "inf_done"
    /\ Len(genResults) = 2
    /\ genResults = firstRun[1]
    /\ genResults[1] # genResults[2]
    /\ Len(sampled) = 2
    /\ cache = CleanCache

====
